---- MODULE Spec2Model ----
(***************************************************************************)
(* asynx_core.taskqueue: the task lifecycle of one (appname, queuename).   *)
(*                                                                         *)
(* The store is the Redis key space of the queue (AX:INC, AX:META:<id>,    *)
(* AX:UUID, AX:CNAME:<cname>, AX:SC).  Clients run add_task and the three  *)
(* delete entry points, workers run request_task / Task.dispatch.  Every   *)
(* process takes one step per round trip to the store, to the broker or to *)
(* the HTTP server, so that all interleavings of these round trips are     *)
(* explored.  A WATCH is modelled by a per-process dirty flag that every   *)
(* write to a watched key raises; EXEC fails (WatchError) when it is set.  *)
(* Each client is one call of add_task or of a delete entry point and each *)
(* worker is one run of request_task; a finished process keeps its result. *)
(***************************************************************************)
EXTENDS Integers, FiniteSets, Sequences

\* ----------------------------------------------------------------- bounds
MaxSubs == 3        \* submissions request_task.apply_async accepts
MaxDeliver == 2     \* deliveries the broker makes of one submission
MaxIds == 3         \* ids HINCRBY hands out
MaxSeconds == 7     \* longest countdown / remaining time, in tenths of a second
MaxTasks == 102     \* tasks in the largest queue that is listed

Clients == {"c1", "c2"}
Workers == {"w1", "w2"}
CNames == {"a"}

NoCname == "-"      \* cname = None
NoId == 0           \* no id / key absent
NoUuid == 0         \* uuid = None

Ids == 1 .. MaxIds
Uuids == 1 .. MaxSubs

\* Callback descriptors: null, the two sentinels, a URL string that starts
\* with http, and a sub-task record (the arguments of an add_task with the
\* cname "a").
None == "None"
Descriptors == {None, "__report__", "__delete__", "http", "subtask"}

\* The request of a task is kept as its url: the url of a client's request
\* and the url a callback posts to.
Url == "url"
CallbackUrl == "callback-url"

\* The X-Asynx-Chained* headers of a request; NoChain = none of them.
NoChain == [url |-> "-", uuid |-> NoUuid, cname |-> NoCname, eta |-> FALSE]

\* The status codes an HTTP response carries.
StatusCodes == {199, 200, 302, 303}

\* ------------------------------------------------------------ Task object
\* Task.__init__: the in-memory task; schedule, eta and last_run_at are kept
\* as "is set".  The callbacks have the defaults of __init__.
Task(id, uuid, cname, eta, schedule, status) ==
    [id |-> id, uuid |-> uuid, cname |-> cname, eta |-> eta,
     schedule |-> schedule, status |-> status, last_run_at |-> FALSE,
     request |-> Url, chained |-> NoChain,
     on_success |-> None, on_failure |-> "__report__", on_complete |-> None]

NoTask == Task(NoId, NoUuid, NoCname, FALSE, FALSE, "-")

\* A meta hash AX:META:<id>.  full = the hash holds every field _to_redis
\* writes; a hash created by HMSET of uuid and status alone has full = FALSE.
NoMeta ==
    [present |-> FALSE, full |-> FALSE, cname |-> NoCname, eta |-> FALSE,
     schedule |-> FALSE, status |-> "-", uuid |-> NoUuid,
     last_run_at |-> FALSE, request |-> "-", chained |-> NoChain,
     on_success |-> None, on_failure |-> None, on_complete |-> None]

\* Task._to_redis: the hash add_task writes for a task.
_to_redis(t) ==
    [present |-> TRUE, full |-> TRUE, cname |-> t.cname, eta |-> t.eta,
     schedule |-> t.schedule, status |-> t.status, uuid |-> t.uuid,
     last_run_at |-> t.last_run_at, request |-> t.request,
     chained |-> t.chained, on_success |-> t.on_success,
     on_failure |-> t.on_failure, on_complete |-> t.on_complete]

\* Task._from_redis: the task read back from hash m of id.
_from_redis(id, m) ==
    [Task(id, m.uuid, m.cname, m.eta, m.schedule, m.status) EXCEPT
        !.last_run_at = m.last_run_at, !.request = m.request,
        !.chained = m.chained, !.on_success = m.on_success,
        !.on_failure = m.on_failure, !.on_complete = m.on_complete]

VARIABLES
    inc,        \* AX:INC field "app:queue"
    meta,       \* AX:META:<id>, a function Ids -> hash
    uuidIdx,    \* AX:UUID, member uuid -> score (NoId = not a member)
    cnameKey,   \* AX:CNAME:<cname> -> id (NoId = key absent)
    schedIdx,   \* AX:SC, the set of member ids
    subTask,    \* broker: submission uuid -> task id (NoId = not submitted)
    deliv,      \* broker: deliveries made of each submission
    cl,         \* clients: position and locals of the running call
    wk,         \* workers: position and locals of the running request_task
    hist        \* history of the calls (results, allocations)

store == <<inc, meta, uuidIdx, cnameKey, schedIdx>>
vars == <<inc, meta, uuidIdx, cnameKey, schedIdx, subTask, deliv, cl, wk, hist>>

\* While a dispatch is in the add_task of a callback, code is the status
\* code of its response and fired the callbacks it has fired so far.
Idle == [pc |-> "idle", t |-> NoTask, old_uuid |-> NoUuid, dirty |-> FALSE,
         res |-> "-", code |-> 0, fired |-> <<>>]

\* A process that returned res, or raised the exception res.
Done(res) == [Idle EXCEPT !.pc = "done", !.res = res]

\* An add_task that returned or raised: its Task object is kept.
AddDone(p, res) == [Done(res) EXCEPT !.t = p.t]

Init ==
    /\ inc = 0
    /\ meta = [i \in Ids |-> NoMeta]
    /\ uuidIdx = [u \in Uuids |-> NoId]
    /\ cnameKey = [c \in CNames |-> NoId]
    /\ schedIdx = {}
    /\ subTask = [u \in Uuids |-> NoId]
    /\ deliv = [u \in Uuids |-> 0]
    /\ cl = [c \in Clients |-> Idle]
    /\ wk = [w \in Workers |-> Idle]
    /\ hist = [assigned |-> <<>>, cnameDel |-> [c \in CNames |-> FALSE]]

\* --------------------------------------------------------- WATCH tracking
\* The clients whose add_task pipeline watches AX:CNAME:<cname>.
AddWatching == {"add_exists", "add_incr", "add_exec"}

\* A write to AX:CNAME:<cname> by self dirties every other watcher of it.
TouchCname(C, cname, self) ==
    [c \in Clients |->
        IF c # self /\ cname # NoCname /\ C[c].pc \in AddWatching
           /\ C[c].t.cname = cname
        THEN [C[c] EXCEPT !.dirty = TRUE] ELSE C[c]]

\* A write to AX:META:<id> by self dirties every other _update_status
\* transaction that watches it.
TouchMeta(W, id, self) ==
    [w \in Workers |->
        IF w # self /\ W[w].pc = "us_exec" /\ W[w].t.id = id
        THEN [W[w] EXCEPT !.dirty = TRUE] ELSE W[w]]

\* ------------------------------------------------------ shared procedures
\* Task.apply_async: the status the task has after the submission.  is_due
\* stands for schedule.is_due(...)[0] of a recurring task and for
\* countdown <= 0 of a task with an eta; gt_half for "the remaining time
\* (remaining_s, countdown) exceeds 0.5 s".
apply_async(t, is_due, gt_half) ==
    IF t.schedule
    THEN IF is_due THEN t.status
         ELSE IF gt_half THEN "scheduled" ELSE t.status
    ELSE IF ~t.eta \/ is_due THEN t.status
         ELSE IF gt_half THEN "delayed" ELSE t.status

\* The next submission id request_task.apply_async returns (result.id).
NextUuid == Cardinality({u \in Uuids : subTask[u] # NoId}) + 1

\* _dispatch_task, the pipeline: HMSET uuid and status on AX:META:<id>
\* (HMSET creates the hash when it is absent).
dispatch_hmset(m, t) ==
    IF m.present THEN [m EXCEPT !.uuid = t.uuid, !.status = t.status]
    ELSE [NoMeta EXCEPT !.present = TRUE, !.uuid = t.uuid, !.status = t.status]

\* _dispatch_task, the pipeline: ZREM old_uuid (if any), ZADD id uuid.
dispatch_zset(idx, old_uuid, t) ==
    [u \in Uuids |->
        IF u = t.uuid THEN t.id
        ELSE IF old_uuid # NoUuid /\ u = old_uuid THEN NoId
        ELSE idx[u]]

\* _delete_task: the keys after the transaction of __delete_task.
delete_meta(M, t) == [M EXCEPT ![t.id] = NoMeta]
delete_uuid(idx, t) == [u \in Uuids |-> IF u = t.uuid THEN NoId ELSE idx[u]]
delete_cname(K, t) == [c \in CNames |-> IF c = t.cname THEN NoId ELSE K[c]]
delete_sched(S, t) == IF t.schedule THEN S \ {t.id} ELSE S

\* The cname whose key a _delete_task of t removes (DEL of an existing key).
DeletedCname(t) ==
    IF t.cname # NoCname /\ cnameKey[t.cname] # NoId THEN t.cname ELSE NoCname

CnameDeleted(t) ==
    [c \in CNames |-> hist.cnameDel[c] \/ c = DeletedCname(t)]

\* ------------------------------------------------------------- add_task
\* add_task's check of the arguments: a schedule needs a cname.
cname_required(cname, schedule) == schedule /\ cname = NoCname

\* add_task up to pipe.watch(cnamekey): the Task is built (status 'new',
\* no uuid) and, when it has a cname, the key is watched.
add_task(c, cname, eta, schedule) ==
    /\ cl[c].pc = "idle"
    /\ IF cname_required(cname, schedule)
       THEN cl' = [cl EXCEPT ![c] = Done("TaskCNameRequired")]
       ELSE cl' = [cl EXCEPT ![c] =
                [Idle EXCEPT
                    !.pc = IF cname # NoCname THEN "add_exists" ELSE "add_incr",
                    !.t = Task(NoId, NoUuid, cname, eta, schedule, "new")]]
    /\ UNCHANGED <<store, subTask, deliv, wk, hist>>

\* add_task: pipe.exists(cnamekey), then pipe.multi().
add_task_exists(c) ==
    /\ cl[c].pc = "add_exists"
    /\ IF cnameKey[cl[c].t.cname] # NoId
       THEN cl' = [cl EXCEPT ![c] = AddDone(@, "TaskAlreadyExists")]
       ELSE cl' = [cl EXCEPT ![c].pc = "add_incr"]
    /\ UNCHANGED <<store, subTask, deliv, wk, hist>>

\* A counter that is set instead of incremented.
hincrby_reset(n) == 1

\* HINCRBY AX:INC app:queue 1.
hincrby(n) == n + 1

\* add_task: task.id = idx = self.redis.hincrby(...), sent on the
\* connection itself and not on the pipeline, hence executed at once.
add_task_hincrby(c) ==
    /\ cl[c].pc = "add_incr"
    /\ inc < MaxIds
    /\ inc' = hincrby(inc)
    /\ cl' = [cl EXCEPT ![c].pc = "add_exec", ![c].t.id = inc']
    /\ hist' = [hist EXCEPT !.assigned = Append(@, inc')]
    /\ UNCHANGED <<meta, uuidIdx, cnameKey, schedIdx, subTask, deliv, wk>>

\* An add_task whose pipeline does not watch the cname key.
add_task_watch_ignored(dirty) == FALSE

\* add_task: whether pipe.execute() raises WatchError.
add_task_watch_error(dirty) == dirty

\* add_task: pipe.execute() of SET cname, HMSET meta, ZADD AX:SC, or the
\* WatchError mapped to TaskAlreadyExists.
add_task_execute(c) ==
    LET t == cl[c].t IN
    /\ cl[c].pc = "add_exec"
    /\ IF add_task_watch_error(cl[c].dirty)
       THEN /\ cl' = [cl EXCEPT ![c] = AddDone(@, "TaskAlreadyExists")]
            /\ UNCHANGED <<meta, cnameKey, schedIdx, wk>>
       ELSE /\ meta' = [meta EXCEPT ![t.id] = _to_redis(t)]
            /\ cnameKey' = [k \in CNames |-> IF k = t.cname THEN t.id ELSE cnameKey[k]]
            /\ schedIdx' = IF t.schedule THEN schedIdx \cup {t.id} ELSE schedIdx
            /\ cl' = TouchCname([cl EXCEPT ![c].pc = "disp_apply"], t.cname, c)
            /\ wk' = TouchMeta(wk, t.id, c)
    /\ UNCHANGED <<inc, uuidIdx, subTask, deliv, hist>>

\* _dispatch_task called by add_task: task.apply_async(...) hands the task
\* to the broker and sets task.uuid and task.status.
add_task_apply_async(c) ==
    LET t == cl[c].t IN
    /\ cl[c].pc = "disp_apply"
    /\ NextUuid \in Uuids
    /\ \E is_due \in BOOLEAN, gt_half \in BOOLEAN :
          cl' = [cl EXCEPT ![c].pc = "disp_pipe",
                           ![c].old_uuid = t.uuid,
                           ![c].t.uuid = NextUuid,
                           ![c].t.status = apply_async(t, is_due, gt_half)]
    /\ subTask' = [subTask EXCEPT ![NextUuid] = t.id]
    /\ UNCHANGED <<store, deliv, wk, hist>>

\* _dispatch_task called by add_task: pipe.execute(), then add_task returns.
add_task_dispatch(c) ==
    LET t == cl[c].t IN
    /\ cl[c].pc = "disp_pipe"
    /\ meta' = [meta EXCEPT ![t.id] = dispatch_hmset(@, t)]
    /\ uuidIdx' = dispatch_zset(uuidIdx, cl[c].old_uuid, t)
    /\ cl' = [cl EXCEPT ![c] = AddDone(@, "ok")]
    /\ wk' = TouchMeta(wk, t.id, c)
    /\ UNCHANGED <<inc, cnameKey, schedIdx, subTask, deliv, hist>>

\* ----------------------------------------------------------- delete_task*
\* _get_task as the delete entry points use it: the call's next position
\* and result after HGETALL AX:META:<id>.  An empty hash is TaskNotFound; a
\* hash without the fields add_task writes makes _from_redis raise KeyError;
\* delete_task (check_running) refuses a running task.
delete_task_unchecked(check_running, status) == FALSE

delete_task_refused(check_running, status) == check_running /\ status = "running"

\* A _get_task that takes an empty hash for a task.
delete_load_unchecked(id, check_running) ==
    [Idle EXCEPT !.pc = "del_txn", !.t = _from_redis(id, meta[id])]

delete_load(id, check_running) ==
    LET m == meta[id] IN
    IF ~m.present
    THEN Done("TaskNotFound")
    ELSE IF ~m.full
    THEN Done("KeyError")
    ELSE IF delete_task_refused(check_running, m.status)
    THEN Done("TaskStatusNotMatched")
    ELSE [Idle EXCEPT !.pc = "del_txn", !.t = _from_redis(id, m)]

\* delete_task(task_id): _get_task and the check of the status.
delete_task(c, id) ==
    /\ cl[c].pc = "idle"
    /\ cl' = [cl EXCEPT ![c] = delete_load(id, TRUE)]
    /\ UNCHANGED <<store, subTask, deliv, wk, hist>>

\* delete_task_by_uuid(uuid): _get_task_by_uuid's ZSCORE AX:UUID uuid.
delete_task_by_uuid(c, uuid) ==
    /\ cl[c].pc = "idle"
    /\ cl' = [cl EXCEPT ![c] =
            IF uuidIdx[uuid] = NoId
            THEN Done("TaskNotFound")
            ELSE [Idle EXCEPT !.pc = "del_get", !.t.id = uuidIdx[uuid]]]
    /\ UNCHANGED <<store, subTask, deliv, wk, hist>>

\* delete_task_by_cname(cname): _get_task_by_cname's GET AX:CNAME:<cname>.
delete_task_by_cname(c, cname) ==
    /\ cl[c].pc = "idle"
    /\ cl' = [cl EXCEPT ![c] =
            IF cnameKey[cname] = NoId
            THEN Done("TaskNotFound")
            ELSE [Idle EXCEPT !.pc = "del_get", !.t.id = cnameKey[cname]]]
    /\ UNCHANGED <<store, subTask, deliv, wk, hist>>

\* delete_task_by_uuid / _by_cname: the _get_task(int(task_id)) that follows.
delete_get(c) ==
    /\ cl[c].pc = "del_get"
    /\ cl' = [cl EXCEPT ![c] = delete_load(cl[c].t.id, FALSE)]
    /\ UNCHANGED <<store, subTask, deliv, wk, hist>>

\* _delete_task(task) called by a client.  The transaction watches the keys
\* only from its own start and reads nothing, and redis-py runs it again on
\* a WatchError, so it takes effect as one atomic write of the keys that the
\* task loaded earlier names.
delete_txn(c) ==
    LET t == cl[c].t IN
    /\ cl[c].pc = "del_txn"
    /\ meta' = delete_meta(meta, t)
    /\ uuidIdx' = delete_uuid(uuidIdx, t)
    /\ cnameKey' = delete_cname(cnameKey, t)
    /\ schedIdx' = delete_sched(schedIdx, t)
    /\ cl' = TouchCname([cl EXCEPT ![c] = Done("deleted")],
                        DeletedCname(t), c)
    /\ wk' = IF meta[t.id].present THEN TouchMeta(wk, t.id, c) ELSE wk
    /\ hist' = [hist EXCEPT !.cnameDel = CnameDeleted(t)]
    /\ UNCHANGED <<inc, subTask, deliv>>

\* -------------------------------------------------------------- get_task*
\* _get_task followed by to_dict(): the view of the task, TaskNotFound for
\* an empty hash, KeyError from _from_redis for a hash without 'eta'.
get_load(id) ==
    LET m == meta[id] IN
    IF ~m.present THEN Done("TaskNotFound")
    ELSE IF ~m.full THEN Done("KeyError")
    ELSE [Done("found") EXCEPT !.t = _from_redis(id, m)]

\* get_task(task_id).
get_task(c, id) ==
    /\ cl[c].pc = "idle"
    /\ cl' = [cl EXCEPT ![c] = get_load(id)]
    /\ UNCHANGED <<store, subTask, deliv, wk, hist>>

\* get_task_by_uuid(uuid): _get_task_by_uuid's ZSCORE AX:UUID uuid.
get_task_by_uuid(c, uuid) ==
    /\ cl[c].pc = "idle"
    /\ cl' = [cl EXCEPT ![c] =
            IF uuidIdx[uuid] = NoId
            THEN Done("TaskNotFound")
            ELSE [Idle EXCEPT !.pc = "get_get", !.t.id = uuidIdx[uuid]]]
    /\ UNCHANGED <<store, subTask, deliv, wk, hist>>

\* get_task_by_cname(cname): _get_task_by_cname's GET AX:CNAME:<cname>.
get_task_by_cname(c, cname) ==
    /\ cl[c].pc = "idle"
    /\ cl' = [cl EXCEPT ![c] =
            IF cnameKey[cname] = NoId
            THEN Done("TaskNotFound")
            ELSE [Idle EXCEPT !.pc = "get_get", !.t.id = cnameKey[cname]]]
    /\ UNCHANGED <<store, subTask, deliv, wk, hist>>

\* get_task_by_uuid / _by_cname: the _get_task(int(task_id)) that follows.
get_get(c) ==
    /\ cl[c].pc = "get_get"
    /\ cl' = [cl EXCEPT ![c] = get_load(cl[c].t.id)]
    /\ UNCHANGED <<store, subTask, deliv, wk, hist>>

\* -------------------------------------------------- request_task, dispatch
\* Task.dispatch: the statuses _update_status accepts as previous.
ensure_previous == {"new", "scheduled", "delayed"}

\* An _update_status that accepts every previous status.
status_never_mismatched(previous, allowed) == FALSE

\* _update_status: previous not in ensure_previous.
status_not_matched(previous, allowed) == previous \notin allowed

\* An _update_status whose transaction does not watch metakey.
update_status_watch_ignored(dirty) == FALSE

\* _update_status: whether the EXEC of the transaction on metakey fails
\* (the key was written since the WATCH) and redis-py runs it again.
update_status_watch_error(dirty) == dirty

\* A request_task that does not catch TaskNotFound.
request_task_uncaught(id) ==
    LET m == meta[id] IN
    IF ~m.present THEN Done("TaskNotFound")
    ELSE IF ~m.full THEN Done("KeyError")
    ELSE [Idle EXCEPT !.pc = "us_read", !.t = _from_redis(id, m)]

\* request_task: task = tq._get_task(task_id); TaskNotFound (an empty hash)
\* is caught and the function returns, the KeyError of _from_redis is not.
request_task_load(id) ==
    LET m == meta[id] IN
    IF ~m.present THEN Done("returned")
    ELSE IF ~m.full THEN Done("KeyError")
    ELSE [Idle EXCEPT !.pc = "us_read", !.t = _from_redis(id, m)]

\* request_task: the broker delivers submission u to worker w, which loads
\* the task.
request_task(w, u) ==
    LET id == subTask[u] IN
    /\ wk[w].pc = "idle"
    /\ id # NoId
    /\ deliv[u] < MaxDeliver
    /\ deliv' = [deliv EXCEPT ![u] = @ + 1]
    /\ wk' = [wk EXCEPT ![w] = request_task_load(id)]
    /\ UNCHANGED <<store, subTask, cl, hist>>

\* _update_status, __update_status up to pipe.multi(): WATCH metakey, HGET
\* status.  The status of an absent hash is None: _loads(not_bytes(None))
\* raises, or yields a value that matches no status.
_update_status(w) ==
    LET m == meta[wk[w].t.id] IN
    /\ wk[w].pc = "us_read"
    /\ \E exc \in {"TaskStatusNotMatched", "TypeError"} :
          wk' = [wk EXCEPT ![w] =
              IF ~m.present THEN Done(exc)
              ELSE IF status_not_matched(m.status, ensure_previous)
              THEN Done("TaskStatusNotMatched")
              ELSE [@ EXCEPT !.pc = "us_exec", !.dirty = FALSE]]
    /\ UNCHANGED <<store, subTask, deliv, cl, hist>>

\* _update_status: what the call returns to dispatch, which stores it in
\* self.last_run_at.  The function has no return statement: the value is
\* None, i.e. last_run_at is not set.
update_status_result == FALSE

\* _update_status: EXEC of HMSET status 'running', last_run_at; on a
\* WatchError the transaction starts again.  Then dispatch sets
\* self.status = 'running' and self.last_run_at.
update_status_execute(w) ==
    LET t == wk[w].t IN
    /\ wk[w].pc = "us_exec"
    /\ IF update_status_watch_error(wk[w].dirty)
       THEN /\ wk' = [wk EXCEPT ![w].pc = "us_read", ![w].dirty = FALSE]
            /\ UNCHANGED meta
       ELSE /\ meta' = [meta EXCEPT ![t.id].status = "running",
                                    ![t.id].last_run_at = TRUE]
            /\ wk' = TouchMeta([wk EXCEPT ![w].pc = "http",
                                          ![w].t.status = "running",
                                          ![w].t.last_run_at = update_status_result],
                               t.id, w)
    /\ UNCHANGED <<inc, uuidIdx, cnameKey, schedIdx, subTask, deliv, cl, hist>>

\* dispatch: status_code >= 200 and status_code < 303.
is_success(code) == code >= 200 /\ code < 303

\* dispatch: the callback fired first for a response.
first_callback(code) == IF is_success(code) THEN "on_success" ELSE "on_failure"

\* A _dispatch_callback that takes every string but '__report__' for a URL.
creates_task_any_string(d) == d \in {"http", "subtask", "__delete__"}

\* _dispatch_callback: whether the descriptor leads to add_task: a string
\* that starts with http is rewritten as a record, a record (dict) is a
\* chained task; '__report__' returns at once and None and '__delete__'
\* fall through both tests.
creates_task(d) == d \in {"http", "subtask"}

\* _dispatch_callback: the Task that add_task(**kwargs) builds for the
\* descriptor d of task t: the request of the record with the
\* X-Asynx-Chained headers of t (the cname header only when t has a cname).
callback_task(t, d) ==
    [Task(NoId, NoUuid, IF d = "subtask" THEN "a" ELSE NoCname,
          FALSE, FALSE, "new") EXCEPT
        !.request = CallbackUrl,
        !.chained = [url |-> t.request, uuid |-> t.uuid,
                     cname |-> t.cname, eta |-> t.eta]]

\* The add_task frame of worker w: the client slot in which the add_task
\* call of its callback runs, step by step as add_task does.
Frame(w) == IF w = "w1" THEN "c1" ELSE "c2"

\* add_task as _dispatch_callback calls it, up to pipe.watch(cnamekey).
callback_call(t, d) ==
    LET sub == callback_task(t, d) IN
    [Idle EXCEPT !.pc = IF sub.cname # NoCname THEN "add_exists" ELSE "add_incr",
                 !.t = sub]

\* The position of a dispatch after its callbacks.
after_callbacks(t) == IF t.schedule THEN "disp_apply" ELSE "del_txn"

\* dispatch: response = self._dispatch(**self.request), then the callbacks.
\* The HTTP call returns a response with a status code, or raises.  After a
\* response the first callback (on_success or on_failure) is fired, then
\* on_complete; callbacks that make no call (None, the sentinels) are passed
\* in the same step, and a callback that leads to add_task starts that call.
dispatch_http(w) ==
    LET t == wk[w].t IN
    /\ wk[w].pc = "http"
    /\ \/ /\ wk' = [wk EXCEPT ![w] = Done("HTTPError")]
          /\ UNCHANGED cl
       \/ \E code \in StatusCodes :
             LET first == first_callback(code) IN
             IF creates_task(t[first])
             THEN /\ cl[Frame(w)].pc = "idle"
                  /\ wk' = [wk EXCEPT ![w].pc = "cb_first", ![w].code = code,
                                      ![w].fired = <<first>>]
                  /\ cl' = [cl EXCEPT ![Frame(w)] = callback_call(t, t[first])]
             ELSE IF creates_task(t.on_complete)
             THEN /\ cl[Frame(w)].pc = "idle"
                  /\ wk' = [wk EXCEPT ![w].pc = "cb_complete", ![w].code = code,
                                      ![w].fired = <<first, "on_complete">>]
                  /\ cl' = [cl EXCEPT ![Frame(w)] =
                                    callback_call(t, t.on_complete)]
             ELSE /\ wk' = [wk EXCEPT ![w].pc = after_callbacks(t)]
                  /\ UNCHANGED cl
    /\ UNCHANGED <<store, subTask, deliv, hist>>

\* dispatch: the add_task of a callback returned or raised.  An exception
\* leaves dispatch; otherwise on_complete is fired next (after the first
\* callback) or the callbacks are over.
callback_return(w) ==
    LET t == wk[w].t
        f == cl[Frame(w)]
    IN
    /\ wk[w].pc \in {"cb_first", "cb_complete"}
    /\ f.pc = "done"
    /\ IF f.res # "ok"
       THEN /\ wk' = [wk EXCEPT ![w] = Done(f.res)]
            /\ cl' = [cl EXCEPT ![Frame(w)] = Idle]
       ELSE IF wk[w].pc = "cb_first" /\ creates_task(t.on_complete)
       THEN /\ wk' = [wk EXCEPT ![w].pc = "cb_complete",
                                ![w].fired = Append(@, "on_complete")]
            /\ cl' = [cl EXCEPT ![Frame(w)] = callback_call(t, t.on_complete)]
       ELSE /\ wk' = [wk EXCEPT ![w].pc = after_callbacks(t),
                                ![w].code = 0, ![w].fired = <<>>]
            /\ cl' = [cl EXCEPT ![Frame(w)] = Idle]
    /\ UNCHANGED <<store, subTask, deliv, hist>>

\* dispatch of a recurring task: _dispatch_task(self), task.apply_async.
dispatch_apply_async(w) ==
    LET t == wk[w].t IN
    /\ wk[w].pc = "disp_apply"
    /\ NextUuid \in Uuids
    /\ \E is_due \in BOOLEAN, gt_half \in BOOLEAN :
          wk' = [wk EXCEPT ![w].pc = "disp_pipe",
                           ![w].old_uuid = t.uuid,
                           ![w].t.uuid = NextUuid,
                           ![w].t.status = apply_async(t, is_due, gt_half)]
    /\ subTask' = [subTask EXCEPT ![NextUuid] = t.id]
    /\ UNCHANGED <<store, deliv, cl, hist>>

\* dispatch of a recurring task: _dispatch_task(self), pipe.execute().
dispatch_reschedule(w) ==
    LET t == wk[w].t IN
    /\ wk[w].pc = "disp_pipe"
    /\ meta' = [meta EXCEPT ![t.id] = dispatch_hmset(@, t)]
    /\ uuidIdx' = dispatch_zset(uuidIdx, wk[w].old_uuid, t)
    /\ wk' = TouchMeta([wk EXCEPT ![w] = Done("rescheduled")],
                       t.id, w)
    /\ UNCHANGED <<inc, cnameKey, schedIdx, subTask, deliv, cl, hist>>

\* dispatch of a task without schedule: _delete_task(self).
dispatch_delete(w) ==
    LET t == wk[w].t IN
    /\ wk[w].pc = "del_txn"
    /\ meta' = delete_meta(meta, t)
    /\ uuidIdx' = delete_uuid(uuidIdx, t)
    /\ cnameKey' = delete_cname(cnameKey, t)
    /\ schedIdx' = delete_sched(schedIdx, t)
    /\ cl' = TouchCname(cl, DeletedCname(t), w)
    /\ wk' = LET W == [wk EXCEPT ![w] = Done("retired")] IN
             IF meta[t.id].present THEN TouchMeta(W, t.id, w) ELSE W
    /\ hist' = [hist EXCEPT !.cnameDel = CnameDeleted(t)]
    /\ UNCHANGED <<inc, subTask, deliv>>

\* ------------------------------------------------------------------- Next
Next ==
    \/ \E c \in Clients, cname \in CNames \cup {NoCname},
          eta \in BOOLEAN, schedule \in BOOLEAN : add_task(c, cname, eta, schedule)
    \/ \E c \in Clients : add_task_exists(c)
    \/ \E c \in Clients : add_task_hincrby(c)
    \/ \E c \in Clients : add_task_execute(c)
    \/ \E c \in Clients : add_task_apply_async(c)
    \/ \E c \in Clients : add_task_dispatch(c)
    \/ \E c \in Clients, id \in Ids : delete_task(c, id)
    \/ \E c \in Clients, uuid \in Uuids : delete_task_by_uuid(c, uuid)
    \/ \E c \in Clients, cname \in CNames : delete_task_by_cname(c, cname)
    \/ \E c \in Clients : delete_get(c)
    \/ \E c \in Clients : delete_txn(c)
    \/ \E c \in Clients, id \in Ids : get_task(c, id)
    \/ \E c \in Clients, uuid \in Uuids : get_task_by_uuid(c, uuid)
    \/ \E c \in Clients, cname \in CNames : get_task_by_cname(c, cname)
    \/ \E c \in Clients : get_get(c)
    \/ \E w \in Workers, u \in Uuids : request_task(w, u)
    \/ \E w \in Workers : _update_status(w)
    \/ \E w \in Workers : update_status_execute(w)
    \/ \E w \in Workers : dispatch_http(w)
    \/ \E w \in Workers : dispatch_apply_async(w)
    \/ \E w \in Workers : dispatch_reschedule(w)
    \/ \E w \in Workers : dispatch_delete(w)

Spec == Init /\ [][Next]_vars

\* ------------------------------------------- dispatch of a stored record
\* The status tags a record in the store carries: those Task documents
\* (new, scheduled, delayed, running) and 'enqueued', the tag the tests of
\* the repository read and write for a task that was just added.
Statuses == {"enqueued", "new", "scheduled", "delayed", "running"}

\* The records one task of the queue can be stored as: id 1, submission 1,
\* any callbacks; a schedule needs a cname, 'scheduled' a schedule and
\* 'delayed' an eta.
StoredTasks ==
    {[Task(1, 1, cname, eta, schedule, status) EXCEPT
         !.on_success = s, !.on_failure = f, !.on_complete = k] :
     cname \in CNames \cup {NoCname}, eta \in BOOLEAN, schedule \in BOOLEAN,
     status \in Statuses, s \in Descriptors, f \in Descriptors,
     k \in Descriptors}

stored_task_valid(t) ==
    /\ ~cname_required(t.cname, t.schedule)
    /\ ~(t.schedule /\ t.eta)
    /\ t.status = "scheduled" => t.schedule
    /\ t.status = "delayed" => t.eta

\* The queue holds one task, added and submitted earlier; the workers are
\* about to receive the submission.
InitStored ==
    \E t \in StoredTasks :
        /\ stored_task_valid(t)
        /\ inc = 1
        /\ meta = [i \in Ids |-> IF i = t.id THEN _to_redis(t) ELSE NoMeta]
        /\ uuidIdx = [u \in Uuids |-> IF u = t.uuid THEN t.id ELSE NoId]
        /\ cnameKey = [c \in CNames |-> IF c = t.cname THEN t.id ELSE NoId]
        /\ schedIdx = IF t.schedule THEN {t.id} ELSE {}
        /\ subTask = [u \in Uuids |-> IF u = t.uuid THEN t.id ELSE NoId]
        /\ deliv = [u \in Uuids |-> 0]
        /\ cl = [c \in Clients |-> Idle]
        /\ wk = [w \in Workers |-> Idle]
        /\ hist = [assigned |-> <<t.id>>, cnameDel |-> [c \in CNames |-> FALSE]]

\* The workers dispatch; the clients' slots run the add_task calls of the
\* callbacks.
NextStored ==
    \/ \E w \in Workers, u \in Uuids : request_task(w, u)
    \/ \E w \in Workers : _update_status(w)
    \/ \E w \in Workers : update_status_execute(w)
    \/ \E w \in Workers : dispatch_http(w)
    \/ \E w \in Workers : callback_return(w)
    \/ \E c \in Clients : add_task_exists(c)
    \/ \E c \in Clients : add_task_hincrby(c)
    \/ \E c \in Clients : add_task_execute(c)
    \/ \E c \in Clients : add_task_apply_async(c)
    \/ \E c \in Clients : add_task_dispatch(c)
    \/ \E w \in Workers : dispatch_apply_async(w)
    \/ \E w \in Workers : dispatch_reschedule(w)
    \/ \E w \in Workers : dispatch_delete(w)

SpecStored == InitStored /\ [][NextStored]_vars

\* --------------------------------- a recurring task, deleted while it runs
\* The queue holds one recurring task whose callbacks create no task; the
\* workers dispatch it while clients delete it by uuid or by cname.
InitTick ==
    /\ InitStored
    /\ schedIdx # {}
    /\ \A i \in schedIdx :
          ~creates_task(meta[i].on_success) /\ ~creates_task(meta[i].on_failure)
          /\ ~creates_task(meta[i].on_complete)

NextTick ==
    \/ \E w \in Workers, u \in Uuids : request_task(w, u)
    \/ \E w \in Workers : _update_status(w)
    \/ \E w \in Workers : update_status_execute(w)
    \/ \E w \in Workers : dispatch_http(w)
    \/ \E w \in Workers : dispatch_apply_async(w)
    \/ \E w \in Workers : dispatch_reschedule(w)
    \/ \E c \in Clients, uuid \in Uuids : delete_task_by_uuid(c, uuid)
    \/ \E c \in Clients, cname \in CNames : delete_task_by_cname(c, cname)
    \/ \E c \in Clients : delete_get(c)
    \/ \E c \in Clients : delete_txn(c)

SpecTick == InitTick /\ [][NextTick]_vars

\* ------------------------------------- a stored task, deleted by its id
\* The queue holds one task whose callbacks create no task; the workers
\* dispatch it while clients call delete_task(id).
InitDelete ==
    /\ InitStored
    /\ \A i \in Ids :
          ~creates_task(meta[i].on_success) /\ ~creates_task(meta[i].on_failure)
          /\ ~creates_task(meta[i].on_complete)

NextDelete ==
    \/ \E w \in Workers, u \in Uuids : request_task(w, u)
    \/ \E w \in Workers : _update_status(w)
    \/ \E w \in Workers : update_status_execute(w)
    \/ \E w \in Workers : dispatch_http(w)
    \/ \E w \in Workers : dispatch_apply_async(w)
    \/ \E w \in Workers : dispatch_reschedule(w)
    \/ \E w \in Workers : dispatch_delete(w)
    \/ \E c \in Clients, id \in Ids : delete_task(c, id)
    \/ \E c \in Clients : delete_txn(c)

SpecDelete == InitDelete /\ [][NextDelete]_vars

\* ------------------------------------------- one-shot tasks, to the end
\* dispatch when the HTTP call returns a response: _dispatch does not raise.
dispatch_http_response(w) == dispatch_http(w) /\ wk'[w].res # "HTTPError"

\* request_task returned or raised: the worker process takes the next
\* message of the broker.
request_task_return(w) ==
    /\ wk[w].pc = "done"
    /\ wk' = [wk EXCEPT ![w] = Idle]
    /\ UNCHANGED <<store, subTask, deliv, cl, hist>>

\* A client adds a task without schedule and nobody deletes; the broker
\* delivers the submission and the workers dispatch, one message after the
\* other.
NextLive ==
    \/ \E cname \in CNames \cup {NoCname}, eta \in BOOLEAN :
          add_task("c1", cname, eta, FALSE)
    \/ \E c \in Clients : add_task_exists(c)
    \/ \E c \in Clients : add_task_hincrby(c)
    \/ \E c \in Clients : add_task_execute(c)
    \/ \E c \in Clients : add_task_apply_async(c)
    \/ \E c \in Clients : add_task_dispatch(c)
    \/ \E w \in Workers, u \in Uuids : request_task(w, u)
    \/ \E w \in Workers : _update_status(w)
    \/ \E w \in Workers : update_status_execute(w)
    \/ \E w \in Workers : dispatch_http_response(w)
    \/ \E w \in Workers : dispatch_delete(w)
    \/ \E w \in Workers : request_task_return(w)

\* Every call and every dispatch that can take a step eventually takes one,
\* and the broker eventually delivers a submission it still has to deliver.
LiveSpec == Init /\ [][NextLive]_vars /\ WF_vars(NextLive)

\* ------------------------------------------------ apply_async, with times
\* Times are counted in tenths of a second.  The threshold 0.5 of
\* apply_async:
Half == 5

\* The countdown of a task with an eta, or the remaining time is_due gives.
Seconds == -1 .. MaxSeconds

\* A threshold that includes 0.5 s.
ge_half(secs) == secs >= Half

\* apply_async: remaining_s > 0.5, self.countdown > 0.5.
gt_half(secs) == secs > Half

\* apply_async: the countdown passed to request_task.apply_async (0 when
\* none is passed).  self.countdown is eta - utcnow() at each of its reads;
\* the reads of one call are taken at one instant.
apply_async_delay(t, is_due, secs) ==
    IF t.schedule
    THEN IF is_due THEN 0 ELSE secs
    ELSE IF ~t.eta \/ secs <= 0 THEN 0 ELSE secs

\* apply_async: the status after the call, for these times.
apply_async_status(t, is_due, secs) ==
    apply_async(t, IF t.schedule THEN is_due ELSE secs <= 0, gt_half(secs))

\* The tasks apply_async is called for: just added ('new') or at the end of
\* a dispatch ('running'), with or without eta and schedule.
ApplyTasks ==
    {Task(1, NoUuid, "a", eta, schedule, status) :
        eta \in BOOLEAN, schedule \in BOOLEAN, status \in {"new", "running"}}

\* One call of apply_async: hist keeps the task before the call, the clock
\* (is_due, secs), the task after the call and the delays submitted.
InitApply ==
    /\ inc = 1
    /\ uuidIdx = [u \in Uuids |-> NoId]
    /\ cnameKey = [c \in CNames |-> 1]
    /\ subTask = [u \in Uuids |-> NoId]
    /\ deliv = [u \in Uuids |-> 0]
    /\ cl = [c \in Clients |-> Idle]
    /\ wk = [w \in Workers |-> Idle]
    /\ \E t \in ApplyTasks, is_due \in BOOLEAN, secs \in Seconds :
          /\ meta = [i \in Ids |-> IF i = t.id THEN _to_redis(t) ELSE NoMeta]
          /\ schedIdx = IF t.schedule THEN {t.id} ELSE {}
          /\ hist = [before |-> t, is_due |-> is_due, secs |-> secs,
                     task |-> t, submitted |-> <<>>]

\* task.apply_async(last_run_at): the submission and the new uuid, status.
apply_async_call ==
    LET t == hist.before IN
    /\ hist.submitted = <<>>
    /\ NextUuid \in Uuids
    /\ subTask' = [subTask EXCEPT ![NextUuid] = t.id]
    /\ hist' = [hist EXCEPT
          !.task = [t EXCEPT !.uuid = NextUuid,
                             !.status = apply_async_status(t, hist.is_due, hist.secs)],
          !.submitted = <<apply_async_delay(t, hist.is_due, hist.secs)>>]
    /\ UNCHANGED <<store, deliv, cl, wk>>

NextApply == apply_async_call

SpecApply == InitApply /\ [][NextApply]_vars

\* ------------------------------------------------- iter_tasks, list_tasks
\* list_tasks: per_pipeline = min(limit + 10, 100).
PageMargin == 10
PageMax == 100

Min(a, b) == IF a < b THEN a ELSE b

\* The members of the sorted set z (member |-> score, NoId when absent).
zmembers(z) == {u \in DOMAIN z : z[u] # NoId}

\* ZRANGE z start stop WITHSCORES for 0 <= start: the (member, score) pairs
\* of rank start .. stop, ranks counted from 0 by score, then by member.
zrange(z, start, stop) ==
    LET mem == zmembers(z)
        ranked == {<<Cardinality({v \in mem : z[v] < z[u] \/ (z[v] = z[u] /\ v < u)}), u>> :
                      u \in mem}
        last == Min(stop, Cardinality(mem) - 1)
    IN  [k \in 1 .. (last - start + 1) |->
            LET p == CHOOSE q \in ranked : q[1] = start + k - 1
            IN  <<p[2], z[p[2]]>>]

\* A stop that is one entry too far.
zrange_stop_next(offset, per_pipeline) == offset + per_pipeline

\* iter_tasks: the stop rank of one page, offset + per_pipeline - 1.
zrange_stop(offset, per_pipeline) == offset + per_pipeline - 1

\* list_tasks: the page size it asks iter_tasks for.
list_per_pipeline(limit) == Min(limit + PageMargin, PageMax)

\* The queues that are listed: n tasks added one after the other, some of
\* them deleted again; the task of id i was submitted as uuid n + 1 - i.
ListSizes == {0, 2, MaxTasks}
ListDeleted(n) == {{}, {i \in 1 .. n : i % 3 = 2}}
ListUuid(n, i) == n + 1 - i

\* The calls: iter_tasks(offset, per_pipeline), list_tasks(offset, limit).
ListCalls(n) ==
    {[op |-> "iter_tasks", offset |-> o, limit |-> 0, per_pipeline |-> pp] :
        o \in {0, 1, 93, n, n + 1}, pp \in {1, 2, 17, 50, PageMax}}
    \cup
    {[op |-> "list_tasks", offset |-> o, limit |-> l,
      per_pipeline |-> list_per_pipeline(l)] :
        o \in {0, 17}, l \in {0, 1, 83, 91, n, n + 1}}

\* The record of one call: the call, the offset of the next page, the page
\* ZRANGE returned and not yet read, the tasks yielded so far, whether the
\* generator has ended, and whether the call has returned (res "KeyError"
\* when it raised).
ListCall(call) ==
    [call |-> call, cur |-> call.offset, page |-> <<>>, fetched |-> FALSE,
     out |-> <<>>, ended |-> FALSE, returned |-> FALSE, res |-> "ok"]

\* One call on one queue that nobody modifies.
InitList ==
    \E n \in ListSizes :
      \E del \in ListDeleted(n), call \in ListCalls(n) :
        /\ inc = n
        /\ meta = [i \in 1 .. n |->
                     IF i \in del THEN NoMeta
                     ELSE _to_redis(Task(i, ListUuid(n, i), NoCname,
                                         FALSE, FALSE, "new"))]
        /\ uuidIdx = [u \in 1 .. n |->
                        IF ListUuid(n, u) \in del THEN NoId ELSE ListUuid(n, u)]
        /\ cnameKey = [c \in CNames |-> NoId]
        /\ schedIdx = {}
        /\ subTask = uuidIdx
        /\ deliv = [u \in 1 .. n |-> 0]
        /\ cl = [c \in Clients |-> Idle]
        /\ wk = [w \in Workers |-> Idle]
        /\ hist = ListCall(call)

\* iter_tasks: the ZRANGE of one turn of its loop, run when the consumer
\* asks for a task it has not got yet; an empty result ends the generator.
iter_tasks_zrange ==
    LET call == hist.call
        result == zrange(uuidIdx, hist.cur, zrange_stop(hist.cur, call.per_pipeline))
    IN
    /\ ~hist.ended /\ ~hist.returned /\ ~hist.fetched
    /\ call.op = "list_tasks" => Len(hist.out) < call.limit
    /\ hist' = IF Len(result) = 0
               THEN [hist EXCEPT !.ended = TRUE,
                                 !.returned = call.op = "iter_tasks"]
               ELSE [hist EXCEPT !.page = [k \in 1 .. Len(result) |-> result[k]],
                                 !.fetched = TRUE]
    /\ UNCHANGED <<store, subTask, deliv, cl, wk>>

\* iter_tasks: the pipeline of HGETALL for the page and the yields.  An
\* absent hash reads as {}, which is not None: _from_redis raises KeyError.
iter_tasks_hgetall ==
    LET call == hist.call
        result == hist.page
        tasks == [k \in 1 .. Len(result) |-> meta[result[k][2]]]
        missing == {k \in 1 .. Len(result) : ~tasks[k].present}
        upto == IF missing = {} THEN Len(result)
                ELSE (CHOOSE k \in missing : \A j \in missing : k <= j) - 1
        yielded == [k \in 1 .. upto |-> _from_redis(result[k][2], tasks[k])]
        over == missing # {} \/ Len(result) < call.per_pipeline
    IN
    /\ hist.fetched
    /\ hist' = [hist EXCEPT
          !.page = <<>>,
          !.fetched = FALSE,
          !.out = hist.out \o yielded,
          !.cur = hist.cur + call.per_pipeline,
          !.ended = over,
          !.res = IF missing # {} THEN "KeyError" ELSE "ok",
          !.returned = call.op = "iter_tasks" /\ over]
    /\ UNCHANGED <<store, subTask, deliv, cl, wk>>

\* list_tasks: list(islice(tasks, 0, limit)) returns once it has limit
\* tasks or the generator has ended.
list_tasks ==
    LET call == hist.call IN
    /\ call.op = "list_tasks" /\ ~hist.returned
    /\ hist.ended \/ Len(hist.out) >= call.limit
    /\ hist' = [hist EXCEPT
          !.out = SubSeq(hist.out, 1, Min(call.limit, Len(hist.out))),
          !.returned = TRUE]
    /\ UNCHANGED <<store, subTask, deliv, cl, wk>>

NextList == iter_tasks_zrange \/ iter_tasks_hgetall \/ list_tasks

SpecList == InitList /\ [][NextList]_vars

\* -------------------------------------- listing while clients delete
\* The tasks of the queue that is listed while it is modified.
RaceSize == Min(MaxIds, MaxSubs)

\* One call on a queue of RaceSize tasks, each with its meta hash and its
\* uuid-index entry, that clients delete from by id.
InitListRace ==
    \E call \in ListCalls(RaceSize) :
        /\ inc = RaceSize
        /\ meta = [i \in Ids |->
                     IF i > RaceSize THEN NoMeta
                     ELSE _to_redis(Task(i, ListUuid(RaceSize, i), NoCname,
                                         FALSE, FALSE, "new"))]
        /\ uuidIdx = [u \in Uuids |->
                        IF u > RaceSize THEN NoId ELSE ListUuid(RaceSize, u)]
        /\ cnameKey = [c \in CNames |-> NoId]
        /\ schedIdx = {}
        /\ subTask = uuidIdx
        /\ deliv = [u \in Uuids |-> 0]
        /\ cl = [c \in Clients |-> Idle]
        /\ wk = [w \in Workers |-> Idle]
        /\ hist = [call |-> call, cur |-> call.offset, page |-> <<>>,
                   fetched |-> FALSE, out |-> <<>>, ended |-> FALSE,
                   returned |-> FALSE, res |-> "ok",
                   assigned |-> [i \in 1 .. RaceSize |-> i],
                   cnameDel |-> [c \in CNames |-> FALSE]]

NextListRace ==
    \/ iter_tasks_zrange
    \/ iter_tasks_hgetall
    \/ list_tasks
    \/ \E c \in Clients, id \in Ids : delete_task(c, id)
    \/ \E c \in Clients : delete_txn(c)

SpecListRace == InitListRace /\ [][NextListRace]_vars

\* ------------------------------------------------------------ vocabulary
\* Worker w is past acquiring the running slot of task id and not finished.
Holding(w, id) ==
    wk[w].pc \in {"http", "disp_apply", "disp_pipe", "del_txn"} /\ wk[w].t.id = id

\* Worker w takes a step.
WorkerStep(w) == wk'[w].pc # wk[w].pc

\* Worker w's _update_status commits: it moves the status to running.
Acquires(w) == wk[w].pc = "us_exec" /\ wk'[w].pc = "http"

\* The positions of a dispatch inside the add_task of a callback.
CallbackPcs == {"cb_first", "cb_complete"}

\* Worker w got the response of its HTTP request in this step.
GotResponse(w) == wk[w].pc = "http" /\ wk'[w].pc # "http" /\ wk'[w].pc # "done"

\* Client k's add_task committed its transaction.
Added(k) ==
    cl[k].pc \in {"disp_apply", "disp_pipe"} \/ (cl[k].pc = "done" /\ cl[k].res = "ok")

\* Client k's add_task raised TaskAlreadyExists.
AddFailed(k) == cl[k].pc = "done" /\ cl[k].res = "TaskAlreadyExists"

\* No call and no dispatch is in the middle of its steps.
Quiescent ==
    /\ \A c \in Clients : cl[c].pc \in {"idle", "done"}
    /\ \A w \in Workers : wk[w].pc \in {"idle", "done"}

\* The members of AX:UUID with score id.
UuidsOf(idx, id) == {u \in Uuids : idx[u] = id}

\* The ids whose meta hash carries cname.
MetasOf(cname) == {i \in Ids : meta[i].present /\ meta[i].cname = cname}

C2_CnameOnce ==
    \A c \in CNames :
        LET ok == {k \in Clients : Added(k) /\ cl[k].t.cname = c}
            failed == {k \in Clients : AddFailed(k) /\ cl[k].t.cname = c}
        IN  ~hist.cnameDel[c] =>
              /\ Cardinality(ok) <= 1
              /\ failed # {} => Cardinality(ok) = 1
              /\ \A k \in ok : /\ cnameKey[c] = cl[k].t.id
                               /\ MetasOf(c) = {cl[k].t.id}
              /\ ok = {} => cnameKey[c] = NoId /\ MetasOf(c) = {}

\* C2 witness: two concurrent calls with one cname, one returned and the
\* other lost the EXEC (it had passed EXISTS and allocated an id).
C2_Witness ==
    \E k, j \in Clients :
        /\ cl[k].pc = "done" /\ cl[k].res = "ok"
        /\ AddFailed(j) /\ cl[j].t.id # NoId
        /\ cl[j].t.cname = cl[k].t.cname
        /\ ~hist.cnameDel[cl[k].t.cname]

\* C3: an add_task commits the id allocation together with its keys or not
\* at all: the counter counts the calls that committed or are still between
\* HINCRBY and EXEC, so a call that raised TaskAlreadyExists left it as it was.
C3_AddAllOrNothing ==
    inc = Cardinality({k \in Clients : cl[k].pc = "add_exec" \/ Added(k)})

\* C4: no two workers hold the dispatch of one task id at the same time.
C4_OneHolder ==
    \A w, v \in Workers, id \in Ids :
        (Holding(w, id) /\ Holding(v, id)) => w = v

\* C5: no two live tasks carry one cname, and the cname key of every live
\* task with a cname exists and holds the id of that task.
C5_CnameUnique ==
    \A i \in Ids :
        (meta[i].present /\ meta[i].cname # NoCname) =>
            /\ cnameKey[meta[i].cname] = i
            /\ MetasOf(meta[i].cname) = {i}

\* C6: when nothing is in the middle of its steps, the meta hash of an id
\* exists iff AX:UUID has exactly one member with that score, and the member
\* is the uuid of the hash.
C6_MetaIffUuid ==
    Quiescent =>
        \A i \in Ids :
            /\ meta[i].present <=> Cardinality(UuidsOf(uuidIdx, i)) = 1
            /\ meta[i].present => UuidsOf(uuidIdx, i) = {meta[i].uuid}

\* C7: the ids add_task assigns are positive and strictly increasing in the
\* order of their allocation, whatever was deleted or dispatched meanwhile;
\* the counter is the last one assigned and every id in use was assigned.
C7_IdsIncrease ==
    LET a == hist.assigned IN
    /\ \A n \in 1 .. Len(a) : a[n] > (IF n = 1 THEN 0 ELSE a[n - 1])
    /\ inc = (IF a = <<>> THEN 0 ELSE a[Len(a)])
    /\ \A k \in Clients : cl[k].t.id # NoId => cl[k].t.id <= inc
    /\ \A i \in Ids : meta[i].present => i <= inc

\* C7 witness: a second id was assigned and returned after the first task
\* was retired by its dispatch.
C7_Witness ==
    /\ Len(hist.assigned) = 2
    /\ \E w \in Workers : wk[w].res = "retired"
    /\ \E k \in Clients : cl[k].res = "ok" /\ cl[k].t.id = 2
    /\ ~meta[1].present

C9_DeleteRemovesAll ==
    [][\A c \in Clients :
        LET t == cl[c].t IN
        (cl[c].pc = "del_txn" /\ cl'[c].pc = "done") =>
            /\ ~meta'[t.id].present
            /\ UuidsOf(uuidIdx', t.id) = {}
            /\ t.cname # NoCname => cnameKey'[t.cname] = NoId
            /\ t.id \notin schedIdx'
            /\ inc' = inc
            /\ \A j \in Ids \ {t.id} : meta'[j] = meta[j]
            /\ \A u \in Uuids : uuidIdx[u] # t.id => uuidIdx'[u] = uuidIdx[u]
            /\ \A n \in CNames : cnameKey[n] # t.id => cnameKey'[n] = cnameKey[n]
            /\ schedIdx' \ {t.id} = schedIdx \ {t.id}
    ]_vars

\* C10: when the dispatch of a task without schedule returns after its HTTP
\* response, the meta hash, the cname key and the uuid-index entry of the
\* task are absent.
C10_DispatchRetires ==
    [][\A w \in Workers :
        LET t == wk[w].t IN
        (wk[w].pc = "del_txn" /\ wk'[w].pc = "done") =>
            /\ ~meta'[t.id].present
            /\ t.cname # NoCname => cnameKey'[t.cname] = NoId
            /\ UuidsOf(uuidIdx', t.id) = {}
    ]_vars

\* C11: the dispatch of a recurring task that got its response does not
\* delete the task: when it returns, the meta hash exists, the cname key and
\* the schedule index are as they were, the dispatch has made one new
\* submission, the meta uuid is the id of that submission and the uuid index
\* holds it for the task in place of the uuid the hash carried before.
C11_RecurringKept ==
    [][\A w \in Workers :
        LET t == wk[w].t
            prev == meta[t.id].uuid
        IN
        (wk[w].pc = "disp_pipe" /\ wk'[w].pc = "done") =>
            /\ meta'[t.id].present
            /\ cnameKey' = cnameKey
            /\ schedIdx' = schedIdx
            /\ t.uuid # wk[w].old_uuid
            /\ subTask[t.uuid] = t.id
            /\ meta'[t.id].uuid = t.uuid
            /\ uuidIdx'[t.uuid] = t.id
            /\ (prev # NoUuid /\ prev # t.uuid) => uuidIdx'[prev] = NoId
    ]_vars

CallbacksInOrder(w) ==
    LET t == wk[w].t
        f == Frame(w)
        first == wk'[w].fired[1]
        by_code == /\ first \in {"on_success", "on_failure"}
                   /\ first = "on_success" <=>
                         (wk'[w].code >= 200 /\ wk'[w].code < 303)
    IN
    /\ (wk[w].pc = "http" /\ wk'[w].pc = "cb_first") =>
          /\ wk'[w].fired = <<first>>
          /\ by_code
          /\ cl'[f] = callback_call(t, t[first])
    /\ (wk[w].pc = "http" /\ wk'[w].pc = "cb_complete") =>
          /\ wk'[w].fired = <<first, "on_complete">>
          /\ by_code
          /\ t[first] \notin {"http", "subtask"}
          /\ cl'[f] = callback_call(t, t.on_complete)
    /\ (wk[w].pc = "cb_first" /\ wk'[w].pc = "cb_complete") =>
          /\ wk'[w].fired = <<wk[w].fired[1], "on_complete">>
          /\ cl'[f] = callback_call(t, t.on_complete)
    /\ (wk'[w].pc \in {"del_txn", "disp_apply"} /\ WorkerStep(w)) =>
          /\ wk[w].pc \in {"http"} \cup CallbackPcs
          /\ wk[w].pc # "cb_complete" => t.on_complete \notin {"http", "subtask"}
          /\ wk[w].pc = "http" =>
                \E n \in {"on_success", "on_failure"} :
                    t[n] \notin {"http", "subtask"}
    /\ (wk[w].pc \in {"http"} \cup CallbackPcs /\ WorkerStep(w)) =>
          UNCHANGED <<store, subTask>>

\* C13: in every dispatch that got an HTTP response exactly one of
\* on_success and on_failure is fired, on_success iff 200 <= status_code <
\* 303, on_complete is fired after it in both cases, and the task is deleted
\* or rescheduled after all callbacks: no dispatch ends inside its callbacks.
C13_CallbacksThenRetire ==
    [][\A w \in Workers :
        /\ CallbacksInOrder(w)
        /\ (wk[w].pc \in CallbackPcs /\ WorkerStep(w)) => wk'[w].pc # "done"
    ]_vars

\* The descriptors that lead to no call, as _dispatch_callback is claimed
\* to treat them: nothing is called and nothing changes.
CallbackNoop(w) ==
    LET t == wk[w].t IN
    /\ (GotResponse(w) /\ wk'[w].pc \notin CallbackPcs) =>
          UNCHANGED <<store, subTask, cl>>
    /\ (wk[w].pc \in {"http"} \cup CallbackPcs /\ wk'[w].pc \in CallbackPcs
           /\ WorkerStep(w)) =>
          /\ t[wk'[w].fired[Len(wk'[w].fired)]] \in {"http", "subtask"}
          /\ cl'[Frame(w)] =
                callback_call(t, t[wk'[w].fired[Len(wk'[w].fired)]])
          /\ UNCHANGED <<store, subTask>>
          /\ \A k \in Clients \ {Frame(w)} : cl'[k] = cl[k]

\* The add_task call of a callback: the Task it is called for carries the
\* url, uuid, eta and cname of the parent in its chained headers and the
\* callback's url, its id is the next id of the queue, and its commit
\* creates the meta hash of that id with these fields.
CallbackAddTask(w) ==
    LET t == wk[w].t
        f == Frame(w)
        sub == cl[f].t
    IN
    wk[w].pc \in CallbackPcs =>
        /\ sub.request = CallbackUrl
        /\ sub.chained = [url |-> t.request, uuid |-> t.uuid,
                          cname |-> t.cname, eta |-> t.eta]
        /\ (cl[f].pc = "add_incr" /\ cl'[f].pc = "add_exec") =>
              /\ cl'[f].t.id = inc + 1
              /\ inc' = inc + 1
        /\ (cl[f].pc = "add_exec" /\ cl'[f].pc = "disp_apply") =>
              /\ ~meta[sub.id].present
              /\ meta'[sub.id] = _to_redis(sub)
              /\ \A j \in Ids \ {sub.id} : meta'[j] = meta[j]
        /\ (cl[f].pc = "done" /\ cl[f].res = "ok") =>
              /\ sub.id # NoId /\ sub.id <= inc
              /\ sub.uuid # NoUuid /\ subTask[sub.uuid] = sub.id

C14_AddedIsEnqueued ==
    [][\A c \in Clients :
        LET t == cl[c].t IN
        (cl[c].pc = "disp_pipe" /\ cl'[c].pc = "done" /\ ~t.eta /\ ~t.schedule) =>
            /\ cl'[c].res = "ok"
            /\ cl'[c].t.status = "enqueued"
            /\ meta'[t.id].status = "enqueued"
    ]_vars

\* C19: the get and delete entry points raise TaskNotFound and change
\* nothing when the id has no meta hash (never allocated or deleted), when
\* the uuid is not in the index or the cname key is absent, and when the id
\* the uuid or cname resolves to has no meta hash.
C19_NotFound ==
    [][\A c \in Clients :
        LET missed == /\ cl'[c].pc = "done"
                      /\ cl'[c].res = "TaskNotFound"
                      /\ UNCHANGED <<store, subTask>>
        IN
        /\ \A id \in Ids :
              ((get_task(c, id) \/ delete_task(c, id)) /\ ~meta[id].present)
                  => missed
        /\ \A uuid \in Uuids :
              ((get_task_by_uuid(c, uuid) \/ delete_task_by_uuid(c, uuid))
                  /\ uuidIdx[uuid] = NoId) => missed
        /\ \A cname \in CNames :
              ((get_task_by_cname(c, cname) \/ delete_task_by_cname(c, cname))
                  /\ cnameKey[cname] = NoId) => missed
        /\ ((get_get(c) \/ delete_get(c)) /\ ~meta[cl[c].t.id].present)
              => missed
    ]_vars

\* C19 witness: a call raised TaskNotFound in a queue whose only task was
\* added by the other client and retired by its dispatch.
C19_Witness ==
    \E c, k \in Clients, w \in Workers :
        /\ cl[c].res = "TaskNotFound"
        /\ cl[k].res = "ok" /\ cl[k].t.id = 1
        /\ wk[w].res = "retired"
        /\ inc = 1 /\ ~meta[1].present

\* C20: _update_status writes status 'running' and last_run_at iff the
\* status it read under WATCH is an allowed one: a read of another status
\* raises TaskStatusNotMatched and writes nothing; the EXEC changes these
\* two fields of the hash and nothing else in the store, and it is applied
\* only when the hash was not written since the read, so the status it
\* replaces is still an allowed one; after such a write the transaction
\* reads again and writes nothing.
C20_UpdateStatus ==
    [][\A w \in Workers :
        LET id == wk[w].t.id
            m == meta[id]
        IN
        /\ (wk[w].pc = "us_read" /\ WorkerStep(w) /\ m.present) =>
              /\ m.status \in ensure_previous <=> wk'[w].pc = "us_exec"
              /\ m.status \notin ensure_previous <=>
                    (wk'[w].pc = "done" /\ wk'[w].res = "TaskStatusNotMatched")
              /\ UNCHANGED <<store, subTask>>
        /\ (wk[w].pc = "us_exec" /\ WorkerStep(w)) =>
              IF wk[w].dirty
              THEN wk'[w].pc = "us_read" /\ UNCHANGED <<store, subTask>>
              ELSE /\ wk'[w].pc = "http"
                   /\ m.present /\ m.status \in ensure_previous
                   /\ meta' = [meta EXCEPT ![id].status = "running",
                                           ![id].last_run_at = TRUE]
                   /\ UNCHANGED <<inc, uuidIdx, cnameKey, schedIdx, subTask>>
        /\ (WorkerStep(w) /\ wk[w].pc \in {"us_read", "us_exec"}
               /\ meta'[id] # m) => Acquires(w)
    ]_vars

\* C20 witness: one _update_status wrote running and last_run_at, and
\* another one for the same task raised TaskStatusNotMatched after a write
\* to the hash had made its EXEC fail.
C20_Witness ==
    \E w, v \in Workers :
        /\ wk[w].pc = "http"
        /\ meta[wk[w].t.id].status = "running"
        /\ meta[wk[w].t.id].last_run_at
        /\ wk[v].res = "TaskStatusNotMatched"

LiveIds == {i \in DOMAIN meta : meta[i].present}
LiveBelow(i) == Cardinality({j \in LiveIds : j < i})

\* C18: on a queue nobody modifies, iter_tasks(offset, per_pipeline) with
\* per_pipeline >= 1 yields every live task from the offset-th on exactly
\* once, in ascending id order, and ends at the end of the set;
\* list_tasks(offset, limit) returns the first min(limit, count - offset) of
\* them in the same order.
C18_IterAndList ==
    hist.returned =>
        LET call == hist.call
            rest == IF Cardinality(LiveIds) > call.offset
                    THEN Cardinality(LiveIds) - call.offset ELSE 0
            expected == IF call.op = "iter_tasks" THEN rest
                        ELSE Min(call.limit, rest)
        IN
        /\ hist.res = "ok"
        /\ Len(hist.out) = expected
        /\ \A k \in 1 .. Len(hist.out) :
              /\ hist.out[k].id \in LiveIds
              /\ LiveBelow(hist.out[k].id) = call.offset + k - 1
              /\ hist.out[k] = _from_redis(hist.out[k].id, meta[hist.out[k].id])

\* C18 witness: list_tasks(17, 83) on a queue of more than 100 live tasks
\* has returned the 83 tasks of ids 18 to 100.
C18_Witness ==
    /\ hist.returned
    /\ hist.call.op = "list_tasks"
    /\ hist.call.offset = 17 /\ hist.call.limit = 83
    /\ Cardinality(LiveIds) > PageMax
    /\ Len(hist.out) = 83
    /\ hist.out[83].id = 100
    /\ hist.out[1].id = 18
    /\ hist.out[1].uuid # hist.out[1].id

\* add_task returned the task of id i to its caller.
Accepted(i) ==
    \E c \in Clients : cl[c].pc = "done" /\ cl[c].res = "ok" /\ cl[c].t.id = i

\* The store holds nothing of task i: no meta hash, no uuid-index entry, no
\* cname key.
NoRecord(i) ==
    /\ ~meta[i].present
    /\ UuidsOf(uuidIdx, i) = {}
    /\ \A c \in CNames : cnameKey[c] # i

\* C16: every task without schedule that add_task accepted and no client
\* deletes has its HTTP request performed and then, eventually, no record
\* left in the store, when every submission is delivered and the HTTP call
\* returns a response, however the adder's and the workers' steps interleave.
C16_EventuallyRetired == \A i \in Ids : Accepted(i) ~> NoRecord(i)

\* Worker w's dispatch of a recurring task returns in this step: the
\* pipeline of _dispatch_task was executed.
Rescheduled(w) == wk[w].pc = "disp_pipe" /\ wk'[w].pc = "done"

\* C21: when the dispatch of a recurring task finishes, the status it leaves
\* in the meta hash is enqueued, new, scheduled or delayed and never running,
\* whatever the schedule and the remaining time, so that the next delivery
\* can acquire.
C21_RescheduledDispatchable ==
    [][\A w \in Workers :
          Rescheduled(w) =>
              meta'[wk[w].t.id].status \in {"enqueued", "new", "scheduled", "delayed"}]_vars

\* C22: a worker that reaches the reschedule of a recurring task which was
\* deleted (by uuid or by cname) after the worker acquired it makes no
\* submission and writes nothing: no meta hash and no uuid-index entry of
\* the deleted id come into being.
C22_DeletedNotRescheduled ==
    [][\A w \in Workers :
          (/\ WorkerStep(w)
           /\ wk[w].pc \in {"disp_apply", "disp_pipe"}
           /\ ~meta[wk[w].t.id].present)
          => /\ subTask' = subTask
             /\ meta' = meta
             /\ uuidIdx' = uuidIdx]_vars

\* C23: when a dispatch acquires the running slot, the last_run_at of the
\* dispatching Task object is the one _update_status wrote to the meta hash
\* (the value it returns), which the reschedule then passes to is_due.
C23_LastRunAtReturned ==
    [][\A w \in Workers :
          Acquires(w) =>
              wk'[w].t.last_run_at = meta'[wk[w].t.id].last_run_at]_vars

\* C24: a uuid-index entry whose meta hash is missing when iter_tasks or
\* list_tasks reads it is skipped silently: the call raises no error, and a
\* call that reads the whole index in one page yields every task that still
\* has its meta hash.
C24_MissingSkipped ==
    hist.returned =>
        /\ hist.res = "ok"
        /\ (/\ hist.call.op = "iter_tasks"
            /\ hist.call.offset = 0
            /\ hist.call.per_pipeline > RaceSize)
           => \A i \in LiveIds : \E k \in 1 .. Len(hist.out) : hist.out[k].id = i

\* The HTTP call of worker w's dispatch raises in this step.
HttpRaises(w) == wk[w].pc = "http" /\ wk'[w].pc = "done" /\ wk'[w].res = "HTTPError"

\* The dispatch of worker w ended with the exception of its HTTP call.
HttpRaised(w) == wk[w].pc = "done" /\ wk[w].res = "HTTPError"

\* C25: when the HTTP call of a dispatch raises, the exception reaches the
\* worker, no callback is fired, nothing is deleted or submitted and the
\* persisted status stays running; afterwards no delivery for that task
\* acquires the running slot, so none performs an HTTP request.  (The second
\* part is stated for the first task of the queue while it is the only one.)
C25_HttpErrorKeepsRunning ==
    [][\A w \in Workers :
          /\ HttpRaises(w) =>
                /\ store' = store /\ subTask' = subTask /\ cl' = cl
                /\ meta[wk[w].t.id].present => meta'[wk[w].t.id].status = "running"
          /\ (HttpRaised(w) /\ inc' = 1) =>
                \A v \in Workers : ~Acquires(v)]_vars

\* The broker delivers submission u to worker w in this step.
Delivered(w, u) == wk[w].pc = "idle" /\ wk'[w].pc # "idle" /\ deliv'[u] # deliv[u]

\* C26: a delivery for a task id whose meta hash does not exist returns
\* silently: no exception reaches the worker, no HTTP request is made, no
\* callback is fired and the store is left as it was.
C26_AbsentReturnsSilently ==
    [][\A w \in Workers, u \in Uuids :
          (Delivered(w, u) /\ ~meta[subTask[u]].present) =>
              /\ wk'[w] = Done("returned")
              /\ store' = store
              /\ subTask' = subTask
              /\ cl' = cl]_vars

\* C26 witness: one delivery completed the task and retired it, a later
\* delivery of the same submission returned silently.
C26_Witness ==
    /\ inc = 1 /\ ~meta[1].present
    /\ \E u \in Uuids : subTask[u] = 1 /\ deliv[u] = 2
    /\ \E w, v \in Workers :
          /\ wk[w].pc = "done" /\ wk[w].res = "retired"
          /\ wk[v].pc = "done" /\ wk[v].res = "returned"

\* Client c's _delete_task transaction executes in this step.
DeleteExecutes(c) == cl[c].pc = "del_txn" /\ cl'[c].pc = "done"

\* C27: delete_task(id) never removes the meta hash of a task whose
\* persisted status is running, also when a dispatch acquired the running
\* slot after delete_task read the status: the delete is then refused or
\* aborted and the meta hash stays.
C27_DeleteNeverRemovesRunning ==
    [][\A c \in Clients :
          (/\ DeleteExecutes(c)
           /\ meta[cl[c].t.id].present
           /\ meta[cl[c].t.id].status = "running")
          => meta'[cl[c].t.id] = meta[cl[c].t.id]]_vars

\* C28: every meta hash in the store holds all the fields add_task's
\* transaction writes: no other operation creates a meta hash, and the
\* uuid/status write of _dispatch_task never brings back a record that a
\* delete or a finished dispatch removed.
C28_MetaHashesComplete == \A i \in Ids : meta[i].present => meta[i].full

====
